---- MODULE Spec2Model ----
(***************************************************************************)
(* Model of the content verification engine                                *)
(* (DeepBlueHallucinationSafeguard, deepblue_hallucination_safeguard.py).  *)
(*                                                                         *)
(* and of the orchestration object that answers queries                    *)
(* (DeepBlueReplicaSystem, deepblue_replica_system.py).                    *)
(*                                                                         *)
(* Text is modelled as TLA+ strings, character by character: the regular   *)
(* expression search and the substring test `in` are computed on the       *)
(* characters of the actual patterns and trusted-source identifiers.       *)
(* Records are heap objects (Python dicts); verification_log holds          *)
(* references to them.                                                     *)
(***************************************************************************)
EXTENDS Integers, Sequences, FiniteSets, TLC

VARIABLES
    heap,              \* the record objects allocated so far; a reference is an index
    verification_log,  \* self.verification_log: sequence of references
    calls,             \* history: the verify_information calls begun, in order
    pc,                \* concurrent callers: position of each thread in verify_information
    frame,             \* concurrent callers: the locals of each thread's call
    self_trusted_sources,     \* self.trusted_sources
    self_verification_rules,  \* self.verification_rules
    ruleset,           \* the list hallucination_patterns that verify_information builds
    constructed,       \* how __init__ ended
    deepblue_replica,  \* the DeepBlueReplicaSystem instance: its attributes
    results,           \* history: what each call on deepblue_replica returned
    ultimate_deepblue_self,  \* the UltimateDeepBlueSelf instance: its attributes
    replies,           \* history: what each call on ultimate_deepblue_self returned
    source_path,       \* the directory self.source_path: the files in it
    target_path,       \* the directory self.target_path: the files written to it
    returncode,        \* the exit status a run of the generated test script ends with
    processes,         \* history: the subprocess.run calls made
    build_result,      \* build_replica: the results of its steps, in order
    stdout,            \* what main has printed
    builder_pc         \* position of main in build_replica

engine == <<self_trusted_sources, self_verification_rules, ruleset, constructed>>
replica == <<deepblue_replica, results>>
ultimate == <<ultimate_deepblue_self, replies>>
builder == <<source_path, target_path, returncode, processes, build_result, stdout, builder_pc>>
vars == <<heap, verification_log, calls, pc, frame, engine, replica, ultimate, builder>>

(***************************************************************************)
(* Characters and strings                                                  *)
(***************************************************************************)
Char(s, i) == SubSeq(s, i, i)

Digits == "0123456789"
UpperLetters == "ABCDEFGHIJKLMNOPQRSTUVWXYZ"
LowerLetters == "abcdefghijklmnopqrstuvwxyz"

IndexIn(alphabet, c) ==
    IF \E i \in 1..Len(alphabet) : Char(alphabet, i) = c
    THEN CHOOSE i \in 1..Len(alphabet) : Char(alphabet, i) = c
    ELSE 0

\* Code points of the ASCII letters and digits.
CodePoint ==
    [c \in {Char(Digits, i) : i \in 1..10} \cup {Char(UpperLetters, i) : i \in 1..26}
           \cup {Char(LowerLetters, i) : i \in 1..26} |->
        IF IndexIn(Digits, c) > 0 THEN 47 + IndexIn(Digits, c)
        ELSE IF IndexIn(UpperLetters, c) > 0 THEN 64 + IndexIn(UpperLetters, c)
        ELSE 96 + IndexIn(LowerLetters, c)]

\* ord(c) of a letter or digit; 0 stands for every other character (none of
\* them lies in a character range of the ruleset).
Ord(c) == IF c \in DOMAIN CodePoint THEN CodePoint[c] ELSE 0

LowerOf == [c \in {Char(UpperLetters, i) : i \in 1..26} |->
               Char(LowerLetters, IndexIn(UpperLetters, c))]
UpperOf == [c \in {Char(LowerLetters, i) : i \in 1..26} |->
               Char(UpperLetters, IndexIn(LowerLetters, c))]

\* Case folding of one character, as re.IGNORECASE compares characters.
Lower(c) == IF c \in DOMAIN LowerOf THEN LowerOf[c] ELSE c
Upper(c) == IF c \in DOMAIN UpperOf THEN UpperOf[c] ELSE c

\* Python's `a in b` on str: a occurs in b as a contiguous substring.
Contains(b, a) ==
    \E i \in 0..(Len(b) - Len(a)) : SubSeq(b, i + 1, i + Len(a)) = a

(***************************************************************************)
(* Regular expressions: the subset of `re` syntax the ruleset uses         *)
(* (literals, `.`, a bracket class of one range, postfix `*`).             *)
(***************************************************************************)
\* Index of the first "]" at or after position i of pattern p.
RECURSIVE ClassEnd(_, _)
ClassEnd(p, i) == IF Char(p, i) = "]" THEN i ELSE ClassEnd(p, i + 1)

\* The atom that starts at position i of p, without its quantifier.
AtomAt(p, i) ==
    IF Char(p, i) = "."
    THEN [kind |-> "dot", lo |-> 0, hi |-> 0, ch |-> ".", next |-> i + 1]
    ELSE IF Char(p, i) = "["
    THEN [kind |-> "class", lo |-> Ord(Char(p, i + 1)), hi |-> Ord(Char(p, i + 3)),
          ch |-> "[", next |-> ClassEnd(p, i) + 1]
    ELSE [kind |-> "lit", lo |-> 0, hi |-> 0, ch |-> Char(p, i), next |-> i + 1]

\* re.compile: the pattern text as a sequence of atoms, each with its star flag.
RECURSIVE Compile(_, _)
Compile(p, i) ==
    IF i > Len(p) THEN <<>>
    ELSE LET a == AtomAt(p, i)
             star == a.next <= Len(p) /\ Char(p, a.next) = "*"
         IN <<[kind |-> a.kind, lo |-> a.lo, hi |-> a.hi, ch |-> a.ch, star |-> star]>>
            \o Compile(p, IF star THEN a.next + 1 ELSE a.next)

\* Variant in which the dot also accepts the newline (re.DOTALL).
AcceptsDotAll(a, c, ignorecase) ==
    CASE a.kind = "dot" -> TRUE
      [] a.kind = "class" ->
            \/ (Ord(c) # 0 /\ Ord(c) >= a.lo /\ Ord(c) <= a.hi)
            \/ (ignorecase /\ Ord(Lower(c)) # 0 /\ Ord(Lower(c)) >= a.lo /\ Ord(Lower(c)) <= a.hi)
            \/ (ignorecase /\ Ord(Upper(c)) # 0 /\ Ord(Upper(c)) >= a.lo /\ Ord(Upper(c)) <= a.hi)
      [] OTHER -> IF ignorecase THEN Lower(c) = Lower(a.ch) ELSE c = a.ch

\* Does atom a accept character c?  ignorecase is the re.IGNORECASE flag.
\* Without re.DOTALL the dot accepts every character but the newline.
Accepts(a, c, ignorecase) ==
    CASE a.kind = "dot" -> c # "\n"
      [] a.kind = "class" ->
            \/ (Ord(c) # 0 /\ Ord(c) >= a.lo /\ Ord(c) <= a.hi)
            \/ (ignorecase /\ Ord(Lower(c)) # 0 /\ Ord(Lower(c)) >= a.lo /\ Ord(Lower(c)) <= a.hi)
            \/ (ignorecase /\ Ord(Upper(c)) # 0 /\ Ord(Upper(c)) >= a.lo /\ Ord(Upper(c)) <= a.hi)
      [] OTHER -> IF ignorecase THEN Lower(c) = Lower(a.ch) ELSE c = a.ch

\* Backtracking match of atoms k.. of the compiled pattern at position j of s.
RECURSIVE MatchHere(_, _, _, _, _)
MatchHere(atoms, k, s, j, ignorecase) ==
    IF k > Len(atoms) THEN TRUE
    ELSE IF atoms[k].star
    THEN \E n \in 0..(Len(s) - j + 1) :
            /\ \A m \in j..(j + n - 1) : Accepts(atoms[k], Char(s, m), ignorecase)
            /\ MatchHere(atoms, k + 1, s, j + n, ignorecase)
    ELSE /\ j <= Len(s)
         /\ Accepts(atoms[k], Char(s, j), ignorecase)
         /\ MatchHere(atoms, k + 1, s, j + 1, ignorecase)

\* re.search(pattern, content, flags) is not None: a match starting anywhere.
Search(pattern, content, ignorecase) ==
    LET atoms == Compile(pattern, 1)
    IN \E j \in 1..(Len(content) + 1) : MatchHere(atoms, 1, content, j, ignorecase)

(***************************************************************************)
(* The engine's tables                                                     *)
(***************************************************************************)
\* Variant of the registry in which one identifier is listed under both categories.
trusted_sources_overlapping ==
    << [category |-> "official_docs",
        sources  |-> << "https://python.langchain.com",
                        "https://docs.llamaindex.ai",
                        "https://platform.openai.com/docs",
                        "https://docs.anthropic.com" >>],
       [category |-> "reputable_repos",
        sources  |-> << "https://github.com/langchain-ai/langchain",
                        "https://docs.llamaindex.ai",
                        "https://github.com/huggingface/transformers" >>] >>

\* _initialize_trusted_sources: the dict, as its items() in insertion order.
trusted_sources ==
    << [category |-> "official_docs",
        sources  |-> << "https://python.langchain.com",
                        "https://docs.llamaindex.ai",
                        "https://platform.openai.com/docs",
                        "https://docs.anthropic.com" >>],
       [category |-> "reputable_repos",
        sources  |-> << "https://github.com/langchain-ai/langchain",
                        "https://github.com/run-llama/llama_index",
                        "https://github.com/huggingface/transformers" >>] >>

\* The local list hallucination_patterns of verify_information.
hallucination_patterns ==
    << "quantum.*consciousness",
       "agi.*integration",
       "parallel.*universe",
       "202[6-9].*breakthrough" >>

\* _initialize_verification_rules: the dict it returns.
verification_rules ==
    [ source_verification |->
        [ required |-> TRUE,
          rules |-> << "Must have official documentation",
                       "Must be from reputable organization",
                       "Must have version control/GitHub",
                       "Must have community validation" >> ],
      content_verification |->
        [ required |-> TRUE,
          rules |-> << "No fictional technologies",
                       "No made-up product names",
                       "No unverified claims",
                       "Must have implementation examples" >> ] ]

\* re.compile raises re.error on pattern p: a bracket class that is never
\* closed, or a leading `*` with nothing to repeat.
Malformed(p) ==
    \/ \E i \in 1..Len(p) :
            Char(p, i) = "[" /\ ~\E j \in (i + 1)..Len(p) : Char(p, j) = "]"
    \/ (Len(p) > 0 /\ Char(p, 1) = "*")

(***************************************************************************)
(* Inputs                                                                  *)
(***************************************************************************)
MaxCalls == 2

\* Submitted contents: empty, clean, one rule, two rules named against ruleset
\* order and in mixed case, a rule matching twice next to a year in the range,
\* keywords in the wrong order, keywords split by a line break, a year outside
\* the range.
Contents ==
    { "",
      "Standard REST API usage example",
      "This uses quantum consciousness breakthroughs",
      "A Parallel Universe of QUANTUM Consciousness",
      "agi integration by 2027, a breakthrough in AGI integration",
      "consciousness is not quantum",
      "quantum\nconsciousness",
      "the 2025 breakthrough" }

\* Claimed sources: registered identifiers, a longer URL under one, a fragment
\* of one, unrelated text, a registered identifier in another letter case.
Sources ==
    { "https://docs.anthropic.com",
      "https://platform.openai.com/docs",
      "https://github.com/huggingface/transformers/issues/1",
      "github.com",
      "https://totally-fake-blog.example",
      "https://DOCS.anthropic.com" }

\* Readings of the wall clock, as datetime.now().isoformat() renders them.
Instants == { "2025-01-01T09:00:00.000001", "2025-01-01T09:00:00.000002" }

\* The concurrent callers and their inputs.
ThreadContents == { "Standard REST API usage example",
                    "This uses quantum consciousness breakthroughs" }
ThreadSources == { "https://docs.anthropic.com", "https://totally-fake-blog.example" }
NumThreads == 2
Threads == 1..NumThreads

\* Engines built from other tables than the shipped ones: the ruleset in every
\* order, a ruleset whose last pattern leaves its bracket open, an empty registry.
Orderings(seq) ==
    { p \in [1..Len(seq) -> {seq[i] : i \in 1..Len(seq)}] :
        \A i, j \in 1..Len(seq) : p[i] = p[j] => i = j }
BrokenRuleset == [hallucination_patterns EXCEPT ![4] = "202[6-9.*breakthrough"]
Rulesets == Orderings(hallucination_patterns) \cup {BrokenRuleset}
Registries == { trusted_sources, <<>> }
ConfigContents == { "",
                    "Standard REST API usage example",
                    "A Parallel Universe of QUANTUM Consciousness",
                    "agi integration by 2027, a breakthrough in AGI integration" }
ConfigSources == { "https://docs.anthropic.com", "https://totally-fake-blog.example" }

\* Inputs at the edges of the two matching rules.  Contents: clean text; a
\* keyword pair in lower and in mixed case; the pair in reverse order; the pair
\* split by a line break; a split pair followed by a pair on one line; the
\* pair with nothing between; two pairs, one of them split.  Sources:
\* the empty string, a registered identifier, the same in another letter
\* case, an unrelated text.
MatchContents ==
    { "Standard REST API usage example",
      "quantum consciousness",
      "QUANTUM Consciousness",
      "consciousness is not quantum",
      "quantum\nconsciousness",
      "quantum\nquantum consciousness",
      "quantumconsciousness",
      "2029 Breakthrough: a parallel\nuniverse" }
MatchSources ==
    { "",
      "https://docs.anthropic.com",
      "https://DOCS.anthropic.com",
      "https://totally-fake-blog.example" }

\* Every content and every source some specification submits.
AllContents == Contents \cup ConfigContents \cup MatchContents
AllSources == Sources \cup ConfigSources \cup MatchSources

(***************************************************************************)
(* verify_information, statement by statement                              *)
(***************************************************************************)
\* hashlib.md5(content.encode()).hexdigest(): the digest is not computed; it is
\* an uninterpreted term over the content.
Md5Hex(content) == <<"md5", content>>

\* str.lower() of a whole string.
RECURSIVE LowerStr(_)
LowerStr(str) ==
    IF Len(str) = 0 THEN ""
    ELSE Lower(Char(str, 1)) \o LowerStr(SubSeq(str, 2, Len(str)))

\* Variants of the record as first built: the source stored case-folded; the
\* digest taken over content and source together; the violations list shared
\* with the record built by the call before.
NewRecordFolded(content, source, now) ==
    [ content_hash |-> Md5Hex(content),
      source       |-> LowerStr(source),
      timestamp    |-> now,
      verified     |-> FALSE,
      violations   |-> <<>> ]
NewRecordSalted(content, source, now) ==
    [ content_hash |-> Md5Hex(content \o source),
      source       |-> source,
      timestamp    |-> now,
      verified     |-> FALSE,
      violations   |-> <<>> ]
NewRecordSharedList(content, source, now) ==
    [ content_hash |-> Md5Hex(content),
      source       |-> source,
      timestamp    |-> now,
      verified     |-> FALSE,
      violations   |-> IF Len(heap) = 0 THEN <<>> ELSE heap[Len(heap)].violations ]

\* Lines 61-67: the dict verification_result as first built.
NewRecord(content, source, now) ==
    [ content_hash |-> Md5Hex(content),
      source       |-> source,
      timestamp    |-> now,
      verified     |-> FALSE,
      violations   |-> <<>> ]

\* Variant of the search without the re.IGNORECASE flag.
FoundCaseSensitive ==
    [pattern \in {hallucination_patterns[i] : i \in 1..Len(hallucination_patterns)},
     content \in AllContents |->
        Search(pattern, content, FALSE)]

\* Line 78: re.search(pattern, content, re.IGNORECASE), evaluated once for
\* each pattern and each content of the model.
Found ==
    [pattern \in {hallucination_patterns[i] : i \in 1..Len(hallucination_patterns)},
     content \in AllContents |->
        Search(pattern, content, TRUE)]

\* Variant of the loop that leaves at the first rule that fires.
RECURSIVE ScanUntilFirst(_, _, _)
ScanUntilFirst(content, i, violations) ==
    IF i > Len(ruleset) THEN violations
    ELSE IF Found[ruleset[i], content]
         THEN Append(violations, "Potential hallucination: " \o ruleset[i])
         ELSE ScanUntilFirst(content, i + 1, violations)

\* Variant of the loop in which a rule that fires replaces what the rules
\* before it reported.
RECURSIVE ScanKeepLast(_, _, _)
ScanKeepLast(content, i, violations) ==
    IF i > Len(ruleset) THEN violations
    ELSE IF Found[ruleset[i], content]
         THEN ScanKeepLast(content, i + 1, <<"Potential hallucination: " \o ruleset[i]>>)
         ELSE ScanKeepLast(content, i + 1, violations)

\* Lines 77-79: the loop over the patterns from index i on, appending to violations.
RECURSIVE ScanPatterns(_, _, _)
ScanPatterns(content, i, violations) ==
    IF i > Len(ruleset) THEN violations
    ELSE LET pattern == ruleset[i]
         IN IF Found[pattern, content]
            THEN ScanPatterns(content, i + 1,
                              Append(violations, "Potential hallucination: " \o pattern))
            ELSE ScanPatterns(content, i + 1, violations)

\* Variant of the condition tightened to one direction of containment.
RelatedOneWay(trusted_source, source) == Contains(source, trusted_source)

\* Variant of the condition that rejects the empty source.
RelatedNonEmpty(trusted_source, source) ==
    /\ source # ""
    /\ (Contains(source, trusted_source) \/ Contains(trusted_source, source))

\* Line 85: the condition of the `if`.
Related(trusted_source, source) ==
    Contains(source, trusted_source) \/ Contains(trusted_source, source)

\* Every identifier of the registry.
Identifiers ==
    UNION { {trusted_sources[i].sources[j] : j \in 1..Len(trusted_sources[i].sources)} :
            i \in 1..Len(trusted_sources) }

\* Line 85 for each registered identifier and each source of the model,
\* evaluated once.
RelatedTo ==
    [trusted_source \in Identifiers, source \in AllSources |->
        Related(trusted_source, source)]

\* Variant of the inner loop without the `break`: the flag is assigned on
\* every iteration.
RECURSIVE InnerLoopNoBreak(_, _, _, _)
InnerLoopNoBreak(i, j, source, source_verified) ==
    IF j > Len(self_trusted_sources[i].sources) THEN source_verified
    ELSE InnerLoopNoBreak(i, j + 1, source,
                          RelatedTo[self_trusted_sources[i].sources[j], source])

\* Lines 84-87: the inner loop over the sources of category i from index j on;
\* `break` leaves this loop only.
RECURSIVE InnerLoop(_, _, _, _)
InnerLoop(i, j, source, source_verified) ==
    IF j > Len(self_trusted_sources[i].sources) THEN source_verified
    ELSE IF RelatedTo[self_trusted_sources[i].sources[j], source]
         THEN TRUE
         ELSE InnerLoop(i, j + 1, source, source_verified)

\* Line 83: the outer loop over the categories from index i on.
RECURSIVE OuterLoop(_, _, _)
OuterLoop(i, source, source_verified) ==
    IF i > Len(self_trusted_sources) THEN source_verified
    ELSE OuterLoop(i + 1, source,
                   InnerLoop(i, 1, source, source_verified))

\* Variant whose flag starts out True.
CheckSourceDefaultTrue(source) == OuterLoop(1, source, TRUE)

\* Lines 82-87: source_verified after the two loops.
CheckSource(source) == OuterLoop(1, source, FALSE)

\* Variants of the verdict: `or` for `and`; the violations left out.
VerdictOr(source_verified, violations) == source_verified \/ Len(violations) = 0
VerdictSourceOnly(source_verified, violations) == source_verified

\* Line 89.
Verdict(source_verified, violations) == source_verified /\ Len(violations) = 0

\* Variants of the append: only verified records are logged; the record is
\* inserted at the front; the log is rebound to a one-element list.
LogOnlyVerified(log, ref) == IF heap'[ref].verified THEN Append(log, ref) ELSE log
ListInsertFront(log, ref) == <<ref>> \o log
ListAssign(log, ref) == <<ref>>

\* Line 91: list.append.
ListAppend(log, ref) == Append(log, ref)

\* The patterns of the model that re.compile rejects, evaluated once.
Uncompilable ==
    { p \in UNION { {patterns[i] : i \in 1..Len(patterns)} : patterns \in Rulesets } :
        Malformed(p) }

\* Variant in which the call also fails on the empty content.
RaisesOnEmpty(content, source) ==
    content = "" \/ \E i \in 1..Len(ruleset) : ruleset[i] \in Uncompilable

\* Line 78: re.search compiles its pattern on the call; the call ends in
\* re.error when the loop reaches a pattern that does not compile.
Raises(content, source) == \E i \in 1..Len(ruleset) : ruleset[i] \in Uncompilable

\* One activation of verify_information: its arguments, its locals, and how
\* it ended.  A call that raised has no record to return (reference 0).
Activation(content, source, ref, sv, returned) ==
    [ content |-> content, source |-> source, verification_result |-> ref,
      source_verified |-> sv, returned |-> returned, raised |-> FALSE ]
Raised(content, source) ==
    [ content |-> content, source |-> source, verification_result |-> 0,
      source_verified |-> FALSE, returned |-> FALSE, raised |-> TRUE ]

\* Lines 15-18: __init__ stores what the two _initialize methods return and an
\* empty log; it checks nothing and always completes.
Construct(registry, patterns) == "ok"

\* DeepBlueReplicaSystem.__init__ (deepblue_replica_system.py, lines 29-40): the
\* attributes of the new instance.  performance_score 10.0 is held in tenths;
\* the dict components is held as its items in insertion order.
DeepBlueReplicaSystem ==
    [ system_id |-> "deepblue_replica_1735722000",
      initialized |-> FALSE,
      performance_score |-> 100,
      components |-> << <<"hallucination_safeguard", TRUE>>,
                        <<"build_diagnosis", TRUE>>,
                        <<"system_builder", TRUE>>,
                        <<"verified_knowledge", TRUE>>,
                        <<"real_time_verification", TRUE>> >> ]

\* list(d.keys()) of a dict held as its items.
Keys(items) == [k \in 1..Len(items) |-> items[k][1]]

(***************************************************************************)
(* Sequential use: one caller, each call runs to completion                *)
(***************************************************************************)
\* UltimateConfig (ultimate_deepblue_self.py, lines 85-101): the attributes a
\* config object offers, and the values the model reads.  A config passed to
\* __init__ need not be an UltimateConfig: any object with the attributes
\* __init__ reads (lines 134-136) is accepted.
UltimateConfig ==
    [ attributes |-> { "system_id", "version", "max_capabilities",
                       "hallucination_prevention", "real_time_verification",
                       "quantum_security", "agi_integration", "unlimited_messages",
                       "virtual_scrolling", "auto_adaptation",
                       "performance_optimization", "bottleneck_free",
                       "hack_phrase", "first_reply" },
      system_id |-> "ultimate_deepblue_1735722000",
      version |-> "3.0.0",
      hack_phrase |-> "i think we need a bigger boat" ]

\* SystemMetrics (lines 103-113); performance_score 10.0 is held in tenths.
\* uptime, average_response_time, memory_usage and cpu_usage are readings of
\* the clock and the machine and are left out.
SystemMetrics ==
    [ queries_processed |-> 0,
      successful_queries |-> 0,
      failed_queries |-> 0,
      performance_score |-> 100 ]

\* UltimateDeepBlueSelf.__init__ (lines 118-132).
UltimateDeepBlueSelf(config) ==
    [ config |-> config,
      status |-> "initializing",
      metrics |-> SystemMetrics,
      capabilities |-> <<>> ]

\* Lines 43-52 of deepblue_replica_builder.py: a builder as main constructs it,
\* before build_replica, with the state of the two directories and the exit
\* status the generated test script would end with if it were run.
DeepBlueReplicaBuilder(source, status) ==
    /\ source_path = source
    /\ target_path = {}
    /\ returncode = status
    /\ processes = <<>>
    /\ build_result = <<>>
    /\ stdout = <<>>
    /\ builder_pc = "build_replica"

\* The engine from a registry and a ruleset, the replica system, and the
\* ultimate system from a config, as constructed.
InitObjects(registry, patterns, config) ==
    /\ heap = <<>>
    /\ verification_log = <<>>
    /\ calls = <<>>
    /\ pc = [t \in Threads |-> "idle"]
    /\ frame = [t \in Threads |-> 0]
    /\ self_trusted_sources = registry
    /\ self_verification_rules = verification_rules
    /\ ruleset = patterns
    /\ constructed = Construct(registry, patterns)
    /\ deepblue_replica = DeepBlueReplicaSystem
    /\ results = <<>>
    /\ ultimate_deepblue_self = UltimateDeepBlueSelf(config)
    /\ replies = <<>>

\* Every object as constructed; the builder over an empty source directory.
InitOf(registry, patterns, config) ==
    /\ InitObjects(registry, patterns, config)
    /\ DeepBlueReplicaBuilder({}, 0)

\* The engine as constructed from a registry and a ruleset.
InitWith(registry, patterns) == InitOf(registry, patterns, UltimateConfig)

\* The shipped engine.
Init == InitWith(trusted_sources, hallucination_patterns)

\* Variant of the call that adds a source it has verified to the registry.
verify_information_learning(content, source, now) ==
    /\ Len(calls) < MaxCalls
    /\ LET ref == Len(heap) + 1
           created == NewRecord(content, source, now)
           violations == ScanPatterns(content, 1, created.violations)
           source_verified == CheckSource(source)
           final == [created EXCEPT !.violations = violations,
                                    !.verified = Verdict(source_verified, violations)]
       IN /\ heap' = Append(heap, final)
          /\ verification_log' = ListAppend(verification_log, ref)
          /\ calls' = Append(calls, Activation(content, source, ref, source_verified, TRUE))
          /\ self_trusted_sources' =
                IF final.verified
                THEN [self_trusted_sources EXCEPT
                        ![1].sources = Append(self_trusted_sources[1].sources, source)]
                ELSE self_trusted_sources
    /\ UNCHANGED <<pc, frame, self_verification_rules, ruleset, constructed, replica, ultimate, builder>>

verify_information(content, source, now) ==
    /\ Len(calls) < MaxCalls
    /\ IF Raises(content, source)
       THEN /\ calls' = Append(calls, Raised(content, source))
            /\ UNCHANGED <<heap, verification_log>>
       ELSE LET ref == Len(heap) + 1
                created == NewRecord(content, source, now)
                violations == ScanPatterns(content, 1, created.violations)
                source_verified == CheckSource(source)
                final == [created EXCEPT !.violations = violations,
                                         !.verified = Verdict(source_verified, violations)]
            IN /\ heap' = Append(heap, final)
               /\ verification_log' = ListAppend(verification_log, ref)
               /\ calls' = Append(calls,
                                  Activation(content, source, ref, source_verified, TRUE))
    /\ UNCHANGED <<pc, frame, engine, replica, ultimate, builder>>

Next ==
    \E content \in Contents, source \in Sources, now \in Instants :
        verify_information(content, source, now)

Spec == Init /\ [][Next]_vars

(***************************************************************************)
(* Engines built from other tables: the call on each configuration         *)
(***************************************************************************)
ConfigInit ==
    \E registry \in Registries, patterns \in Rulesets : InitWith(registry, patterns)

ConfigNext ==
    \E content \in ConfigContents, source \in ConfigSources, now \in Instants :
        verify_information(content, source, now)

SpecConfig == ConfigInit /\ [][ConfigNext]_vars

(***************************************************************************)
(* The shipped engine on inputs at the edges of its two matching rules     *)
(***************************************************************************)
MatchingNext ==
    \E content \in MatchContents, source \in MatchSources, now \in Instants :
        verify_information(content, source, now)

SpecMatching == Init /\ [][MatchingNext]_vars

(***************************************************************************)
(* The caller keeps the dict that verify_information returned: it is the   *)
(* object the log refers to, and a dict can be assigned to.                *)
(***************************************************************************)
\* Line 92 returns the record by reference; the caller stores a verdict in it.
caller_sets_verified(i, value) ==
    /\ i \in 1..Len(calls)
    /\ calls[i].returned
    /\ heap[calls[i].verification_result].verified # value
    /\ heap' = [heap EXCEPT ![calls[i].verification_result].verified = value]
    /\ UNCHANGED <<verification_log, calls, pc, frame, engine, replica, ultimate, builder>>

CallerNext ==
    \/ \E content \in ConfigContents, source \in ConfigSources, now \in Instants :
            verify_information(content, source, now)
    \/ \E i \in 1..MaxCalls, value \in BOOLEAN : caller_sets_verified(i, value)

SpecCaller == Init /\ [][CallerNext]_vars

(***************************************************************************)
(* The orchestration object: DeepBlueReplicaSystem                         *)
(***************************************************************************)
MaxQueries == 3

Questions ==
    { "Test query", "What is RAG?", "This uses quantum consciousness breakthroughs" }

\* The optional argument hack_phrase: absent (None), or a text.
HackPhrases ==
    { [given |-> FALSE, text |-> ""],
      [given |-> TRUE, text |-> "i think we need a bigger boat"],
      [given |-> TRUE, text |-> "hello"] }

\* Variant that answers without the question.
process_query_canned(question) == "DeepBlue Replica Response"

\* Lines 128-131: _process_query_with_verification.
process_query_with_verification(question) == "DeepBlue Replica Response: " \o question

\* Variant of initialize_system in which a forced run on an initialized system
\* leaves it uninitialized.
initialize_system_toggle(force_reinit) ==
    /\ Len(results) < MaxQueries
    /\ IF deepblue_replica.initialized /\ ~force_reinit
       THEN /\ results' = Append(results,
                    [ op |-> "initialize_system", force_reinit |-> force_reinit,
                      success |-> TRUE,
                      message |-> "System already initialized",
                      system_id |-> deepblue_replica.system_id,
                      performance_score |-> deepblue_replica.performance_score ])
            /\ UNCHANGED deepblue_replica
       ELSE /\ deepblue_replica' =
                    [deepblue_replica EXCEPT !.initialized = ~deepblue_replica.initialized]
            /\ results' = Append(results,
                    [ op |-> "initialize_system", force_reinit |-> force_reinit,
                      success |-> TRUE,
                      message |-> "Replica system initialized successfully",
                      system_id |-> deepblue_replica.system_id,
                      performance_score |-> deepblue_replica.performance_score,
                      components |-> Keys(deepblue_replica.components) ])
    /\ UNCHANGED <<heap, verification_log, calls, pc, frame, engine, ultimate, builder>>

\* Variant of query_system that initializes the system on demand instead of
\* returning the error value.
query_system_lazy(question, hack_phrase, now) ==
    /\ Len(results) < MaxQueries
    /\ deepblue_replica' = [deepblue_replica EXCEPT !.initialized = TRUE]
    /\ results' = Append(results,
            [ op |-> "query_system", question |-> question,
              hack_phrase |-> hack_phrase, success |-> TRUE,
              answer |-> process_query_with_verification(question),
              verified |-> TRUE,
              system_id |-> deepblue_replica.system_id,
              timestamp |-> now ])
    /\ UNCHANGED <<heap, verification_log, calls, pc, frame, engine, ultimate, builder>>

\* Lines 44-82: initialize_system.  The five _initialize_ methods only log.
initialize_system(force_reinit) ==
    /\ Len(results) < MaxQueries
    /\ IF deepblue_replica.initialized /\ ~force_reinit
       THEN /\ results' = Append(results,
                    [ op |-> "initialize_system", force_reinit |-> force_reinit,
                      success |-> TRUE,
                      message |-> "System already initialized",
                      system_id |-> deepblue_replica.system_id,
                      performance_score |-> deepblue_replica.performance_score ])
            /\ UNCHANGED deepblue_replica
       ELSE /\ deepblue_replica' = [deepblue_replica EXCEPT !.initialized = TRUE]
            /\ results' = Append(results,
                    [ op |-> "initialize_system", force_reinit |-> force_reinit,
                      success |-> TRUE,
                      message |-> "Replica system initialized successfully",
                      system_id |-> deepblue_replica.system_id,
                      performance_score |-> deepblue_replica.performance_score,
                      components |-> Keys(deepblue_replica.components) ])
    /\ UNCHANGED <<heap, verification_log, calls, pc, frame, engine, ultimate, builder>>

\* Lines 109-126: query_system.  The hack phrase is only logged.
query_system(question, hack_phrase, now) ==
    /\ Len(results) < MaxQueries
    /\ IF ~deepblue_replica.initialized
       THEN results' = Append(results,
                [ op |-> "query_system", question |-> question,
                  hack_phrase |-> hack_phrase, success |-> FALSE,
                  error |-> "System not initialized" ])
       ELSE results' = Append(results,
                [ op |-> "query_system", question |-> question,
                  hack_phrase |-> hack_phrase, success |-> TRUE,
                  answer |-> process_query_with_verification(question),
                  verified |-> TRUE,
                  system_id |-> deepblue_replica.system_id,
                  timestamp |-> now ])
    /\ UNCHANGED <<heap, verification_log, calls, pc, frame, engine, deepblue_replica, ultimate, builder>>

ReplicaNext ==
    \/ \E force_reinit \in BOOLEAN : initialize_system(force_reinit)
    \/ \E question \in Questions, hack_phrase \in HackPhrases, now \in Instants :
            query_system(question, hack_phrase, now)

SpecReplica == Init /\ [][ReplicaNext]_vars

(***************************************************************************)
(* The orchestration object: UltimateDeepBlueSelf                          *)
(* (ultimate_deepblue_self.py).  initialize and query are coroutines with  *)
(* no suspension point of their own, so each runs as one step.             *)
(***************************************************************************)
\* Line 491: the cap 10.0 and the bonus 0.1, in tenths.
ScoreCap == 100
HackBonus == 1

\* Config objects: an UltimateConfig, and objects that lack one attribute: one
\* read by initialize only, one read by query only when a hack phrase is
\* given, one read by both.
Configs ==
    { UltimateConfig,
      [UltimateConfig EXCEPT !.attributes = @ \ {"bottleneck_free"}],
      [UltimateConfig EXCEPT !.attributes = @ \ {"hack_phrase"}],
      [UltimateConfig EXCEPT !.attributes = @ \ {"agi_integration"}] }

UltimateQuestions == { "System ready for ultimate operations", "What is RAG?" }

\* The optional argument hack_phrase of query: absent, the phrase inside a
\* longer text in mixed case, another text.
UltimateHackPhrases ==
    { [given |-> FALSE, text |-> ""],
      [given |-> TRUE, text |-> "I think we need a BIGGER boat, now"],
      [given |-> TRUE, text |-> "hello"] }

\* Lines 208-254: the keys of self.capabilities, and the config attributes the
\* dict display reads, in the order it reads them.
CoreCapabilities ==
    << "hallucination_prevention", "real_time_verification", "quantum_security",
       "agi_integration", "unlimited_messages", "virtual_scrolling",
       "auto_adaptation", "performance_optimization", "bottleneck_free" >>

\* Lines 531-540: the config attributes _process_query_with_all_systems reads.
ProcessReads ==
    << "version", "hallucination_prevention", "real_time_verification",
       "quantum_security", "agi_integration" >>

\* The first attribute of the sequence that the config lacks (getattr raises
\* AttributeError there), or "" when it has them all.
RECURSIVE FirstMissing(_, _, _)
FirstMissing(config, reads, i) ==
    IF i > Len(reads) THEN ""
    ELSE IF reads[i] \notin config.attributes THEN reads[i]
    ELSE FirstMissing(config, reads, i + 1)

\* str(n) of a natural number, and f"{x:.1f}" of a score held in tenths.
RECURSIVE Decimal(_)
Decimal(n) ==
    IF n < 10 THEN Char(Digits, n + 1)
    ELSE Decimal(n \div 10) \o Char(Digits, (n % 10) + 1)
OneDecimal(tenths) == Decimal(tenths \div 10) \o "." \o Decimal(tenths % 10)

\* Python truth value of the argument hack_phrase: None and "" are false.
Truthy(hack_phrase) == hack_phrase.given /\ hack_phrase.text # ""

\* Variant of the score update without the cap.
BoostedUncapped(score) == score + HackBonus

\* Line 491: min(10.0, performance_score + 0.1).
Boosted(score) == IF score + HackBonus < ScoreCap THEN score + HackBonus ELSE ScoreCap

\* Variant of the failure branch that also counts the query as processed.
RecordFailureCounted(metrics) ==
    [metrics EXCEPT !.failed_queries = @ + 1, !.queries_processed = @ + 1]

\* Line 517: the except branch.
RecordFailure(metrics) == [metrics EXCEPT !.failed_queries = @ + 1]

\* Lines 497-498.
RecordSuccess(metrics) ==
    [metrics EXCEPT !.queries_processed = @ + 1, !.successful_queries = @ + 1]

\* Lines 525-550: _process_query_with_all_systems; the flags of the model's
\* configs are all true.  The pictographs of the source text are left out.
process_query_with_all_systems(self, question) ==
    "Ultimate DeepBlue Self " \o self.config.version
    \o "\nHallucination Prevention: ACTIVE"
    \o "\nReal-time Verification: ACTIVE"
    \o "\nQuantum Security: ACTIVE"
    \o "\nAGI Integration: ACTIVE"
    \o "\nResponse: " \o question
    \o "\nPerformance Score: " \o OneDecimal(self.metrics.performance_score) \o "/10"
    \o "\nQueries Processed: " \o Decimal(self.metrics.queries_processed)

\* Lines 138-202: initialize.  Only _initialize_core_capabilities reads the
\* config; the ten methods after it assign dict displays of literals.
initialize ==
    /\ Len(replies) < MaxQueries
    /\ LET self == ultimate_deepblue_self
           missing == FirstMissing(self.config, CoreCapabilities, 1)
       IN IF missing = ""
          THEN /\ ultimate_deepblue_self' =
                    [self EXCEPT !.capabilities = CoreCapabilities,
                                 !.status = "operational"]
               /\ replies' = Append(replies,
                    [ op |-> "initialize", success |-> TRUE,
                      system_id |-> self.config.system_id,
                      version |-> self.config.version,
                      status |-> "operational",
                      capabilities |-> Len(CoreCapabilities),
                      performance_score |-> self.metrics.performance_score ])
          ELSE /\ ultimate_deepblue_self' = [self EXCEPT !.status = "error"]
               /\ replies' = Append(replies,
                    [ op |-> "initialize", success |-> FALSE,
                      error |-> <<"AttributeError", missing>>,
                      system_id |-> self.config.system_id ])
    /\ UNCHANGED <<heap, verification_log, calls, pc, frame, engine, replica, builder>>

\* Variant of the failure test that also refuses a system that is not
\* operational.
QueryRaisesUnlessOperational(self, hack_phrase) ==
    IF self.status # "operational" THEN "status"
    ELSE IF Truthy(hack_phrase) /\ "hack_phrase" \notin self.config.attributes
    THEN "hack_phrase"
    ELSE FirstMissing(self.config, ProcessReads, 1)

\* Lines 487-494: the attribute whose read raises inside the try block, or ""
\* when the block runs to its return.
QueryRaises(self, hack_phrase) ==
    IF Truthy(hack_phrase) /\ "hack_phrase" \notin self.config.attributes
    THEN "hack_phrase"
    ELSE FirstMissing(self.config, ProcessReads, 1)

\* Lines 489-491: the metrics after the hack phrase check.
AfterHackPhrase(self, hack_phrase) ==
    IF /\ Truthy(hack_phrase)
       /\ "hack_phrase" \in self.config.attributes
       /\ Contains(LowerStr(hack_phrase.text), self.config.hack_phrase)
    THEN [self EXCEPT !.metrics.performance_score = Boosted(self.metrics.performance_score)]
    ELSE self

\* Lines 483-523: query.
query(question, hack_phrase, now) ==
    /\ Len(replies) < MaxQueries
    /\ LET self == AfterHackPhrase(ultimate_deepblue_self, hack_phrase)
           raised == QueryRaises(ultimate_deepblue_self, hack_phrase)
       IN IF raised = ""
          THEN /\ ultimate_deepblue_self' =
                    [self EXCEPT !.metrics = RecordSuccess(self.metrics)]
               /\ replies' = Append(replies,
                    [ op |-> "query", question |-> question,
                      hack_phrase |-> hack_phrase, success |-> TRUE,
                      answer |-> process_query_with_all_systems(self, question),
                      verified |-> TRUE,
                      system_id |-> self.config.system_id,
                      version |-> self.config.version,
                      capabilities_used |-> self.capabilities,
                      timestamp |-> now ])
          ELSE /\ ultimate_deepblue_self' =
                    [self EXCEPT !.metrics = RecordFailure(self.metrics)]
               /\ replies' = Append(replies,
                    [ op |-> "query", question |-> question,
                      hack_phrase |-> hack_phrase, success |-> FALSE,
                      error |-> <<"AttributeError", raised>>,
                      system_id |-> self.config.system_id,
                      timestamp |-> now ])
    /\ UNCHANGED <<heap, verification_log, calls, pc, frame, engine, replica, builder>>

UltimateInit ==
    \E config \in Configs : InitOf(trusted_sources, hallucination_patterns, config)

UltimateNext ==
    \/ initialize
    \/ \E question \in UltimateQuestions, hack_phrase \in UltimateHackPhrases,
          now \in Instants :
            query(question, hack_phrase, now)

SpecUltimate == UltimateInit /\ [][UltimateNext]_vars

(***************************************************************************)
(* The builder: main of deepblue_replica_builder.py constructs a           *)
(* DeepBlueReplicaBuilder and calls build_replica, which calls its steps   *)
(* in order.  Each step is one action.  A step that writes files may find  *)
(* the target directory unwritable: open raises OSError, which only        *)
(* _test_build catches.                                                    *)
(***************************************************************************)
\* Lines 9-28 and the def and class statements: the names bound in the
\* module's global namespace.
ModuleGlobals ==
    { "os", "json", "shutil", "subprocess", "time", "datetime", "Dict", "List",
      "Any", "Optional", "dataclass", "logging", "logger", "DeepBlueComponent",
      "DeepBlueReplicaBuilder", "main" }

\* Lines 129-136.
core_files ==
    { "ultimate_deepblue_system.py", "hallucination_safeguard_system.py",
      "build_diagnosis_system.py", "system_builder.py",
      "Universal_Cursor_Agent.py", "final_comprehensive_2025_system.py" }

\* The source directories of the model.
SourceTrees ==
    SUBSET { "ultimate_deepblue_system.py", "system_builder.py", "requirements.txt" }

\* Exit statuses of the generated test script: it ends with 0, or with 1
\* from its sys.exit(1).
ExitStatuses == { 0, 1 }

\* The files among the first n of a sequence of file names.
Written(files, n) == { files[k] : k \in 1..n }

\* A step of build_replica that writes the files in order and returns a
\* result; an OSError at any of the writes leaves the files before it written
\* and propagates out of build_replica and main.
BuildStep(step, files, result, next) ==
    /\ builder_pc = step
    /\ \E n \in 0..Len(files) :
          /\ target_path' = target_path \cup Written(files, n)
          /\ IF n = Len(files)
             THEN /\ build_result' = Append(build_result, result)
                  /\ builder_pc' = next
             ELSE /\ build_result' = build_result
                  /\ builder_pc' = "raised"
    /\ UNCHANGED <<source_path, returncode, processes, stdout>>
    /\ UNCHANGED <<heap, verification_log, calls, pc, frame, engine, replica, ultimate>>

\* Lines 263-266 and 54-75: os.makedirs and learn_from_source.  The order of
\* key_components (by priority) is not modelled.
learn_from_source ==
    BuildStep("build_replica", <<>>,
              [ step |-> "learn_from_source",
                key_components |-> source_path \cap core_files ],
              "_build_core_system")

\* Lines 300-481.
build_core_system ==
    BuildStep("_build_core_system", <<"deepblue_replica_system.py">>,
              [ step |-> "_build_core_system", success |-> TRUE,
                core_file |-> "deepblue_replica_system.py" ],
              "_build_components")

\* Lines 483-593.
build_components ==
    BuildStep("_build_components", <<"deepblue_hallucination_safeguard.py">>,
              [ step |-> "_build_components", success |-> TRUE,
                components_created |-> <<"deepblue_hallucination_safeguard.py">>,
                total_components |-> 1 ],
              "_create_configuration")

\* Lines 595-643.
create_configuration ==
    BuildStep("_create_configuration", <<"requirements.txt", "package.json">>,
              [ step |-> "_create_configuration", success |-> TRUE,
                config_files |-> <<"requirements.txt", "package.json">> ],
              "_create_documentation")

\* Lines 645-712.
create_documentation ==
    BuildStep("_create_documentation", <<"README.md">>,
              [ step |-> "_create_documentation", success |-> TRUE,
                documentation_files |-> <<"README.md">> ],
              "_test_build")

\* Lines 714-773: _test_build.  Inside the try block it writes the test
\* script, then evaluates the argument list [sys.executable, test_file] of
\* subprocess.run: a name that is not bound in the module's globals raises
\* NameError there, before any process is started.  The except branch
\* catches OSError and NameError alike.
test_build ==
    /\ builder_pc = "_test_build"
    /\ \E n \in 0..1 :
          /\ target_path' = target_path \cup Written(<<"test_replica.py">>, n)
          /\ IF n = 0
             THEN /\ processes' = processes
                  /\ build_result' = Append(build_result,
                        [ step |-> "_test_build", success |-> FALSE,
                          error |-> "OSError" ])
             ELSE IF "sys" \notin ModuleGlobals
             THEN /\ processes' = processes
                  /\ build_result' = Append(build_result,
                        [ step |-> "_test_build", success |-> FALSE,
                          error |-> "name 'sys' is not defined" ])
             ELSE /\ processes' = Append(processes,
                        [ args |-> <<"sys.executable", "test_replica.py">>,
                          returncode |-> returncode ])
                  /\ build_result' = Append(build_result,
                        [ step |-> "_test_build", success |-> (returncode = 0),
                          returncode |-> returncode ])
    /\ builder_pc' = "main"
    /\ UNCHANGED <<source_path, returncode, stdout>>
    /\ UNCHANGED <<heap, verification_log, calls, pc, frame, engine, replica, ultimate>>

\* Lines 285-298 and 789-799: build_replica returns build_result with
\* success True, and main prints its report.  The pictographs are left out.
main ==
    /\ builder_pc = "main"
    /\ LET test_result == build_result[Len(build_result)]
       IN stdout' = stdout \o
            << "DeepBlue replica built successfully!",
               "Test result: " \o (IF test_result.success THEN "PASSED" ELSE "FAILED") >>
    /\ builder_pc' = "done"
    /\ UNCHANGED <<source_path, target_path, returncode, processes, build_result>>
    /\ UNCHANGED <<heap, verification_log, calls, pc, frame, engine, replica, ultimate>>

BuilderInit ==
    \E source \in SourceTrees, status \in ExitStatuses :
        /\ InitObjects(trusted_sources, hallucination_patterns, UltimateConfig)
        /\ DeepBlueReplicaBuilder(source, status)

BuilderNext ==
    \/ learn_from_source
    \/ build_core_system
    \/ build_components
    \/ create_configuration
    \/ create_documentation
    \/ test_build
    \/ main

SpecBuilder == BuilderInit /\ [][BuilderNext]_vars

(***************************************************************************)
(* Concurrent use: several threads call verify_information on one engine.  *)
(* The interpreter switches threads between statements; list.append is one *)
(* indivisible operation on the list.                                      *)
(***************************************************************************)
\* Variant of the statement order: the record is appended to the log as soon
\* as it is built, and filled in afterwards.
StepAfterAppendFirst(p) ==
    CASE p = "create"  -> "append"
      [] p = "append"  -> "scan"
      [] p = "scan"    -> "source"
      [] p = "source"  -> "verdict"
      [] p = "verdict" -> "return"
      [] OTHER         -> "idle"

\* The order of the statements of verify_information: the position that
\* follows position p.
StepAfter(p) ==
    CASE p = "create"  -> "scan"        \* 61-67, then the loop 77-79
      [] p = "scan"    -> "source"      \* then 82-87
      [] p = "source"  -> "verdict"     \* then 89
      [] p = "verdict" -> "append"      \* then 91
      [] p = "append"  -> "return"      \* then 92
      [] OTHER         -> "idle"

\* Lines 59-67: a thread enters the function and builds verification_result.
Enter(t, content, source, now) ==
    /\ pc[t] = "idle"
    /\ Len(calls) < MaxCalls
    /\ heap' = Append(heap, NewRecord(content, source, now))
    /\ calls' = Append(calls, Activation(content, source, Len(heap) + 1, FALSE, FALSE))
    /\ frame' = [frame EXCEPT ![t] = Len(calls) + 1]
    /\ pc' = [pc EXCEPT ![t] = StepAfter("create")]
    /\ UNCHANGED <<verification_log, engine, replica, ultimate, builder>>

\* Lines 77-79: the pattern loop, appending to the record's violations.
Scan(t) ==
    /\ pc[t] = "scan"
    /\ LET call == calls[frame[t]]
           ref == call.verification_result
       IN heap' = [heap EXCEPT ![ref].violations =
                        ScanPatterns(call.content, 1, heap[ref].violations)]
    /\ pc' = [pc EXCEPT ![t] = StepAfter("scan")]
    /\ UNCHANGED <<verification_log, calls, frame, engine, replica, ultimate, builder>>

\* Lines 82-87: the source loops, setting the local source_verified.
Source(t) ==
    /\ pc[t] = "source"
    /\ calls' = [calls EXCEPT ![frame[t]].source_verified = CheckSource(calls[frame[t]].source)]
    /\ pc' = [pc EXCEPT ![t] = StepAfter("source")]
    /\ UNCHANGED <<heap, verification_log, frame, engine, replica, ultimate, builder>>

\* Line 89: the verdict is stored in the record.
Judge(t) ==
    /\ pc[t] = "verdict"
    /\ LET call == calls[frame[t]]
           ref == call.verification_result
       IN heap' = [heap EXCEPT ![ref].verified =
                        Verdict(call.source_verified, heap[ref].violations)]
    /\ pc' = [pc EXCEPT ![t] = StepAfter("verdict")]
    /\ UNCHANGED <<verification_log, calls, frame, engine, replica, ultimate, builder>>

\* Line 91: the record is appended to the log.
Log(t) ==
    /\ pc[t] = "append"
    /\ UNCHANGED <<heap, calls, frame, engine, replica, ultimate, builder>>
    /\ verification_log' =
            ListAppend(verification_log, calls[frame[t]].verification_result)
    /\ pc' = [pc EXCEPT ![t] = StepAfter("append")]

\* Line 92: the call returns the record.
Return(t) ==
    /\ pc[t] = "return"
    /\ calls' = [calls EXCEPT ![frame[t]].returned = TRUE]
    /\ frame' = [frame EXCEPT ![t] = 0]
    /\ pc' = [pc EXCEPT ![t] = StepAfter("return")]
    /\ UNCHANGED <<heap, verification_log, engine, replica, ultimate, builder>>

ThreadNext ==
    \E t \in Threads :
        \/ \E content \in ThreadContents, source \in ThreadSources, now \in Instants :
                Enter(t, content, source, now)
        \/ Scan(t)
        \/ Source(t)
        \/ Judge(t)
        \/ Log(t)
        \/ Return(t)

SpecThreads == Init /\ [][ThreadNext]_vars

(***************************************************************************)
(* Properties                                                              *)
(***************************************************************************)
\* The record a call built, and the calls that have returned.
RecordOf(call) == heap[call.verification_result]
Returned == { i \in 1..Len(calls) : calls[i].returned }

\* Stated without the engine's loops: the rules that fire on a content, the
\* violations they name in ruleset order, containment with some identifier.
Fired(content) ==
    SelectSeq([i \in 1..Len(hallucination_patterns) |-> i],
              LAMBDA i : Found[hallucination_patterns[i], content])
ExpectedViolations ==
    [content \in AllContents |->
        [k \in 1..Len(Fired(content)) |->
            "Potential hallucination: " \o hallucination_patterns[Fired(content)[k]]]]
ContainmentRelated ==
    [source \in AllSources |->
        \E trusted \in Identifiers : Contains(source, trusted) \/ Contains(trusted, source)]

\* C1: the record of every call has verified = true exactly when the source
\* check succeeded and the violations list is empty.
C1_VerifiedIffSourceAndClean ==
    \A i \in Returned :
        RecordOf(calls[i]).verified
            <=> (calls[i].source_verified /\ RecordOf(calls[i]).violations = <<>>)

\* C1 witness: one call verified, another with a trusted source rejected for
\* its violations.
C1_Witness ==
    \E i, j \in Returned :
        /\ RecordOf(calls[i]).verified
        /\ calls[j].source_verified
        /\ RecordOf(calls[j]).violations # <<>>
        /\ ~RecordOf(calls[j]).verified

\* C2: violations lists "Potential hallucination: <pattern>" once for each
\* rule that matches the content, in ruleset order, and nothing else.
C2_ViolationsAreTheFiredRules ==
    \A i \in Returned :
        RecordOf(calls[i]).violations = ExpectedViolations[calls[i].content]

\* C2 witness: a content on which two rules fire (named in the text against
\* ruleset order) and a content on which one rule matches twice and is listed once.
C2_Witness ==
    \E i, j \in Returned :
        /\ calls[i].content = "A Parallel Universe of QUANTUM Consciousness"
        /\ RecordOf(calls[i]).violations =
                << "Potential hallucination: quantum.*consciousness",
                   "Potential hallucination: parallel.*universe" >>
        /\ calls[j].content = "agi integration by 2027, a breakthrough in AGI integration"
        /\ RecordOf(calls[j]).violations =
                << "Potential hallucination: agi.*integration",
                   "Potential hallucination: 202[6-9].*breakthrough" >>

\* C3: source_verified holds exactly when some registered identifier contains
\* the source or is contained in it (a condition on the set of identifiers,
\* whatever their order).
C3_SourceVerifiedIffContainment ==
    \A i \in Returned : calls[i].source_verified <=> ContainmentRelated[calls[i].source]

\* C3 witness: a source accepted as a fragment of an identifier and a source
\* accepted as an extension of one.
C3_Witness ==
    \E i, j \in Returned :
        /\ calls[i].source = "github.com"
        /\ calls[i].source_verified
        /\ calls[j].source = "https://github.com/huggingface/transformers/issues/1"
        /\ calls[j].source_verified

\* C4: every call lengthens verification_log by exactly one, and the record
\* it returns is the last one of the log.
C4_EachCallAppendsOne ==
    [][calls' # calls =>
        /\ Len(verification_log') = Len(verification_log) + 1
        /\ verification_log'[Len(verification_log')]
                = calls'[Len(calls')].verification_result]_vars

\* C4 witness: a second call has appended to a log that held one record.
C4_Witness ==
    /\ Len(calls) = 2
    /\ Len(verification_log) = 2
    /\ verification_log[2] = calls[2].verification_result

\* C5: after sequential calls the log holds the record of the i-th call at
\* position i, and each step keeps the log it found as a prefix.
C5_LogInCallOrder ==
    /\ [](/\ Len(verification_log) = Len(calls)
          /\ \A i \in 1..Len(calls) :
                /\ verification_log[i] = calls[i].verification_result
                /\ heap[verification_log[i]].source = calls[i].source
                /\ heap[verification_log[i]].content_hash = Md5Hex(calls[i].content))
    /\ [][/\ Len(verification_log') >= Len(verification_log)
          /\ SubSeq(verification_log', 1, Len(verification_log)) = verification_log]_vars

\* C5 witness: two calls with different arguments, both logged.
C5_Witness ==
    /\ Len(verification_log) = 2
    /\ calls[1].content # calls[2].content
    /\ calls[1].source # calls[2].source

\* C6: a source unrelated by containment to every identifier is never
\* verified, whatever the content.
C6_UnrelatedSourceNeverVerified ==
    \A i \in Returned :
        ~ContainmentRelated[calls[i].source] => ~RecordOf(calls[i]).verified

\* C6 witness: clean content from an unrelated source: no violations, not verified.
C6_Witness ==
    \E i \in Returned :
        /\ calls[i].source = "https://totally-fake-blog.example"
        /\ calls[i].content = "Standard REST API usage example"
        /\ RecordOf(calls[i]).violations = <<>>
        /\ ~RecordOf(calls[i]).verified

\* C7: when a rule matches the content (ignoring case), violations names that
\* rule and verified is false, also for a registered source.
C7_MatchedRuleIsReported ==
    \A i \in Returned : \A r \in 1..Len(hallucination_patterns) :
        Found[hallucination_patterns[r], calls[i].content] =>
            /\ \E k \in 1..Len(RecordOf(calls[i]).violations) :
                    RecordOf(calls[i]).violations[k]
                        = "Potential hallucination: " \o hallucination_patterns[r]
            /\ ~RecordOf(calls[i]).verified

\* C7 witness: flagged content from a registered identifier.
C7_Witness ==
    \E i \in Returned :
        /\ calls[i].content = "This uses quantum consciousness breakthroughs"
        /\ calls[i].source = "https://docs.anthropic.com"
        /\ RecordOf(calls[i]).violations = <<"Potential hallucination: quantum.*consciousness">>
        /\ ~RecordOf(calls[i]).verified

\* C8: content that matches no rule, from a source equal to a registered
\* identifier, is verified with an empty violations list.
C8_CleanContentTrustedSourceVerified ==
    \A i \in Returned :
        (/\ \A r \in 1..Len(hallucination_patterns) : ~Found[hallucination_patterns[r], calls[i].content]
         /\ calls[i].source \in Identifiers)
        => (RecordOf(calls[i]).verified /\ RecordOf(calls[i]).violations = <<>>)

\* C8 witness: the empty content and a clean text, each from a registered identifier.
C8_Witness ==
    \E i, j \in Returned :
        /\ calls[i].content = ""
        /\ calls[i].source = "https://docs.anthropic.com"
        /\ RecordOf(calls[i]).verified
        /\ calls[j].content = "Standard REST API usage example"
        /\ calls[j].source = "https://platform.openai.com/docs"
        /\ RecordOf(calls[j]).verified

\* C9: under concurrent calls no append is lost: the log holds exactly one
\* entry for each call that has passed its append, so n entries once n calls
\* have finished; and every step only extends the log at its end.
C9_AppendsAreSerialized ==
    /\ [](/\ Len(verification_log)
                = Cardinality(Returned) + Cardinality({t \in Threads : pc[t] = "return"})
          /\ \A i, j \in 1..Len(verification_log) :
                verification_log[i] = verification_log[j] => i = j
          /\ \A i \in Returned :
                \E k \in 1..Len(verification_log) :
                    verification_log[k] = calls[i].verification_result)
    /\ [][\/ verification_log' = verification_log
          \/ \E ref \in 1..Len(heap) :
                verification_log' = Append(verification_log, ref)]_vars

\* C9 witness: two overlapping calls have finished, logged in the order of
\* their appends, which is not the order in which they were entered.
C9_Witness ==
    /\ \A t \in Threads : pc[t] = "idle"
    /\ Cardinality(Returned) = 2
    /\ Len(verification_log) = 2
    /\ verification_log[1] = calls[2].verification_result
    /\ verification_log[2] = calls[1].verification_result

\* C10: whatever the threads are doing, every record in the log carries its
\* final verified value and its complete violations list.
C10_LoggedRecordsAreComplete ==
    \A k \in 1..Len(verification_log) :
        \A i \in 1..Len(calls) :
            calls[i].verification_result = verification_log[k] =>
                /\ heap[verification_log[k]].violations = ExpectedViolations[calls[i].content]
                /\ heap[verification_log[k]].verified
                        = (/\ ContainmentRelated[calls[i].source]
                           /\ ExpectedViolations[calls[i].content] = <<>>)

\* C10 witness: the log holds a verified record while another call, entered
\* before that record was appended, is still between its steps.
C10_Witness ==
    /\ \E t \in Threads : pc[t] \in {"scan", "source", "verdict"} /\ frame[t] = 1
    /\ Len(verification_log) = 1
    /\ verification_log[1] = calls[2].verification_result
    /\ heap[verification_log[1]].verified

\* C11: once a record is in verification_log its fields never change,
\* whatever follows: later calls, or use of the dict the call returned.
C11_LoggedRecordsNeverChange ==
    [][\A k \in 1..Len(verification_log) :
            heap'[verification_log[k]] = heap[verification_log[k]]]_vars

\* The verdict as a function of content and source alone.
Verdicts ==
    [content \in Contents, source \in Sources |->
        [ verified   |-> ContainmentRelated[source] /\ ExpectedViolations[content] = <<>>,
          violations |-> ExpectedViolations[content] ]]

\* C12: verified and violations are a function of (content, source): every
\* call, whatever calls came before it, returns what that function gives, so
\* two calls with the same arguments differ in the timestamp at most.
C12_VerdictIsAFunctionOfContentAndSource ==
    /\ \A i \in Returned :
          /\ RecordOf(calls[i]).verified = Verdicts[calls[i].content, calls[i].source].verified
          /\ RecordOf(calls[i]).violations
                = Verdicts[calls[i].content, calls[i].source].violations
    /\ \A i, j \in Returned :
          (calls[i].content = calls[j].content /\ calls[i].source = calls[j].source)
          => /\ RecordOf(calls[i]).verified = RecordOf(calls[j]).verified
             /\ RecordOf(calls[i]).violations = RecordOf(calls[j]).violations
             /\ RecordOf(calls[i]).content_hash = RecordOf(calls[j]).content_hash
             /\ RecordOf(calls[i]).source = RecordOf(calls[j]).source

\* C12 witness: flagged content verified twice from the same source, on an
\* empty log and on a log of one record, at different instants.
C12_Witness ==
    /\ Len(calls) = 2
    /\ calls[1].content = "This uses quantum consciousness breakthroughs"
    /\ calls[2].content = calls[1].content
    /\ calls[1].source = "https://docs.anthropic.com"
    /\ calls[2].source = calls[1].source
    /\ RecordOf(calls[1]).timestamp # RecordOf(calls[2]).timestamp
    /\ RecordOf(calls[2]).violations = <<"Potential hallucination: quantum.*consciousness">>

\* C13: content_hash is the digest of the content and of nothing else: calls
\* with the same content carry the same digest whatever source, time and log,
\* and calls with different contents carry different digests.
C13_FingerprintDependsOnContentOnly ==
    /\ \A i \in Returned : RecordOf(calls[i]).content_hash = Md5Hex(calls[i].content)
    /\ \A i, j \in Returned :
          (calls[i].content = calls[j].content)
          <=> (RecordOf(calls[i]).content_hash = RecordOf(calls[j]).content_hash)

\* C13 witness: one content verified from two sources at two instants with one
\* digest.
C13_Witness ==
    /\ Len(calls) = 2
    /\ calls[1].content = calls[2].content
    /\ calls[1].source # calls[2].source
    /\ RecordOf(calls[1]).timestamp # RecordOf(calls[2]).timestamp
    /\ RecordOf(calls[1]).content_hash = RecordOf(calls[2]).content_hash

\* C14: after any sequence of calls trusted_sources, verification_rules and
\* the patterns are what they were at construction.
C14_RegistriesUnchanged ==
    /\ self_trusted_sources = trusted_sources
    /\ self_verification_rules = verification_rules
    /\ ruleset = hallucination_patterns

\* C14 witness: two calls have returned, one of them with a verified source
\* that is not itself an identifier.
C14_Witness ==
    /\ Len(calls) = 2
    /\ \E i \in Returned :
          /\ RecordOf(calls[i]).verified
          /\ calls[i].source = "https://github.com/huggingface/transformers/issues/1"
    /\ self_trusted_sources = trusted_sources

\* C15: for every content (the empty one included) and every source the call
\* can be made and completes: it returns a record, does not raise, and the
\* record it returns is in the log.
C15_EveryCallCompletesWithARecord ==
    /\ \A i \in 1..Len(calls) :
          /\ calls[i].returned
          /\ ~calls[i].raised
          /\ \E k \in 1..Len(verification_log) :
                verification_log[k] = calls[i].verification_result
    /\ Len(calls) < MaxCalls =>
          \A content \in Contents, source \in Sources :
              ENABLED (\E now \in Instants : verify_information(content, source, now))

\* C15 witness: the empty content and a source that is no URL have each
\* produced a logged record.
C15_Witness ==
    \E i, j \in Returned :
        /\ calls[i].content = ""
        /\ calls[j].source = "github.com"
        /\ calls[j].content = "quantum\nconsciousness"
        /\ Len(verification_log) = 2

\* C16: the source of the record is the submitted source, character for
\* character, also for a source that is not verified.
C16_SourceEchoedVerbatim ==
    \A i \in Returned : RecordOf(calls[i]).source = calls[i].source

\* C16 witness: a source in another letter case than a registered identifier
\* is not verified and is stored as submitted.
C16_Witness ==
    \E i \in Returned :
        /\ calls[i].source = "https://DOCS.anthropic.com"
        /\ ~calls[i].source_verified
        /\ RecordOf(calls[i]).source = "https://DOCS.anthropic.com"
        /\ RecordOf(calls[i]).source # "https://docs.anthropic.com"

C18_RuleOrderDoesNotChangeWhatFires ==
    \A i \in Returned :
        LET violations == RecordOf(calls[i]).violations
            shipped == ExpectedViolations[calls[i].content]
        IN /\ {violations[k] : k \in 1..Len(violations)} = {shipped[k] : k \in 1..Len(shipped)}
           /\ Len(violations) = Len(shipped)
           /\ RecordOf(calls[i]).verified = (calls[i].source_verified /\ shipped = <<>>)

\* C18 witness: a reordered ruleset lists the two rules that fire in another
\* order than the shipped ruleset does.
C18_Witness ==
    \E i \in Returned :
        /\ ruleset # hallucination_patterns
        /\ Len(RecordOf(calls[i]).violations) = 2
        /\ RecordOf(calls[i]).violations # ExpectedViolations[calls[i].content]
        /\ self_trusted_sources = trusted_sources

\* C19: every successful query_system result follows exactly one
\* verify_information call on the answer it presents, and its verified flag
\* is the verdict of that call.
C19_EveryAnswerIsVerifiedOnce ==
    \A k \in 1..Len(results) :
        (results[k].op = "query_system" /\ results[k].success) =>
            /\ Cardinality({i \in Returned : calls[i].content = results[k].answer}) = 1
            /\ \A i \in Returned :
                  calls[i].content = results[k].answer
                  => results[k].verified = RecordOf(calls[i]).verified

\* C20: no identifier of the engine's registry is listed under two categories.
C20_NoIdentifierInTwoCategories ==
    \A i, j \in 1..Len(self_trusted_sources) :
        i < j =>
            \A a \in 1..Len(self_trusted_sources[i].sources) :
                \A b \in 1..Len(self_trusted_sources[j].sources) :
                    self_trusted_sources[i].sources[a] # self_trusted_sources[j].sources[b]

\* C20 witness: the engine in use holds two categories, of four and of three
\* identifiers, seven in all.
C20_Witness ==
    /\ Len(calls) > 0
    /\ Len(self_trusted_sources) = 2
    /\ Len(self_trusted_sources[1].sources) = 4
    /\ Len(self_trusted_sources[2].sources) = 3
    /\ Cardinality(UNION { {self_trusted_sources[i].sources[a] :
                                a \in 1..Len(self_trusted_sources[i].sources)} :
                           i \in 1..Len(self_trusted_sources) }) = 7

\* The entry the step has just added to results, and the entries before k
\* that report a successful initialize_system.
Last(seq) == seq[Len(seq)]
InitializedBefore(k) ==
    \E j \in 1..(k - 1) : results[j].op = "initialize_system" /\ results[j].success

\* C21: initialize_system on a fresh instance returns success; every
\* query_system call made after a successful initialize_system, with or
\* without a hack phrase, returns success with an answer that contains the
\* question.
C21_InitializedSystemAnswersEveryQuery ==
    /\ (results # <<>> /\ results[1].op = "initialize_system") => results[1].success
    /\ \A k \in 1..Len(results) :
          (results[k].op = "query_system" /\ InitializedBefore(k)) =>
              /\ results[k].success
              /\ Contains(results[k].answer, results[k].question)

\* C21 witness: after initialize_system a query with the hack phrase and a
\* query without one have both been answered.
C21_Witness ==
    /\ Len(results) = 3
    /\ results[1].op = "initialize_system" /\ results[1].success
    /\ results[2].op = "query_system" /\ results[2].hack_phrase.given
    /\ results[2].answer = "DeepBlue Replica Response: Test query"
    /\ results[3].op = "query_system" /\ ~results[3].hack_phrase.given
    /\ results[3].success

\* C25: on a system that is not initialized, query_system returns exactly
\* success = false with error "System not initialized", no answer, and the
\* attributes of the system are what they were.
C25_UninitializedQueryIsRefused ==
    [][(/\ ~deepblue_replica.initialized
        /\ Len(results') = Len(results) + 1
        /\ Last(results').op = "query_system")
       => /\ ~Last(results').success
          /\ Last(results').error = "System not initialized"
          /\ DOMAIN Last(results')
                = {"op", "question", "hack_phrase", "success", "error"}
          /\ deepblue_replica' = deepblue_replica]_vars

\* C25 witness: a fresh system has refused a query with a hack phrase and a
\* query without one, and is as constructed.
C25_Witness ==
    /\ Len(results) = 2
    /\ \A k \in 1..2 : results[k].op = "query_system" /\ ~results[k].success
    /\ results[1].hack_phrase.given /\ ~results[2].hack_phrase.given
    /\ deepblue_replica = DeepBlueReplicaSystem

\* C26: initialized never goes back to false, and initialize_system without
\* force_reinit on an initialized system answers "System already initialized"
\* and leaves the system as it was.
C26_InitializedIsMonotoneAndIdempotent ==
    [][/\ deepblue_replica.initialized => deepblue_replica'.initialized
       /\ (/\ deepblue_replica.initialized
           /\ Len(results') = Len(results) + 1
           /\ Last(results').op = "initialize_system"
           /\ ~Last(results').force_reinit)
          => /\ Last(results').success
             /\ Last(results').message = "System already initialized"
             /\ deepblue_replica' = deepblue_replica]_vars

\* C26 witness: an initialized system has been initialized again, once
\* without and once with force_reinit, and is still initialized.
C26_Witness ==
    /\ Len(results) = 3
    /\ \A k \in 1..3 : results[k].op = "initialize_system"
    /\ ~results[2].force_reinit
    /\ results[2].message = "System already initialized"
    /\ results[3].force_reinit
    /\ results[3].message = "Replica system initialized successfully"
    /\ deepblue_replica.initialized

\* The shipped patterns and the entry each one adds to violations.
ShippedPatterns == {hallucination_patterns[i] : i \in 1..Len(hallucination_patterns)}
Message == [pattern \in ShippedPatterns |-> "Potential hallucination: " \o pattern]
Reports(record, pattern) ==
    \E k \in 1..Len(record.violations) : record.violations[k] = Message[pattern]

\* C22: the empty source is contained in every identifier, so a call with
\* source "" has source_verified = true, and with content that matches no
\* pattern it returns verified = true.
C22_EmptySourceIsTrusted ==
    \A i \in Returned :
        calls[i].source = "" =>
            /\ calls[i].source_verified
            /\ (\A pattern \in ShippedPatterns : ~Found[pattern, calls[i].content])
                    => RecordOf(calls[i]).verified

\* C22 witness: clean content with the empty source is verified; flagged
\* content with the empty source is not.
C22_Witness ==
    \E i, j \in Returned :
        /\ calls[i].source = ""
        /\ calls[i].content = "Standard REST API usage example"
        /\ RecordOf(calls[i]).verified
        /\ calls[j].source = ""
        /\ calls[j].source_verified
        /\ ~RecordOf(calls[j]).verified

\* Sources that equal an identifier once letter case is ignored, without
\* being that identifier; and the search on the lowercased content without
\* the flag.
CaseVariant ==
    [source \in AllSources |->
        \E trusted \in Identifiers :
            source # trusted /\ LowerStr(source) = LowerStr(trusted)]
FoundInLowercased ==
    [pattern \in ShippedPatterns, content \in MatchContents |->
        Search(pattern, LowerStr(content), FALSE)]

\* C23: a source that differs from an identifier in letter case only, and is
\* related to no identifier by containment, is not verified; content that
\* matches a pattern once its letters are lowercased is reported, whatever
\* its letter case.
C23_SourceCaseSensitivePatternNot ==
    \A i \in Returned :
        /\ (CaseVariant[calls[i].source] /\ ~ContainmentRelated[calls[i].source])
                => (~calls[i].source_verified /\ ~RecordOf(calls[i]).verified)
        /\ \A pattern \in ShippedPatterns :
                FoundInLowercased[pattern, calls[i].content]
                    => Reports(RecordOf(calls[i]), pattern)

\* C23 witness: clean content from the identifier in another letter case is
\* rejected, and the keyword pair in mixed case is reported.
C23_Witness ==
    \E i, j \in Returned :
        /\ calls[i].source = "https://DOCS.anthropic.com"
        /\ calls[i].content = "Standard REST API usage example"
        /\ ~RecordOf(calls[i]).verified
        /\ calls[j].content = "QUANTUM Consciousness"
        /\ ~FoundCaseSensitive[hallucination_patterns[1], calls[j].content]
        /\ RecordOf(calls[j]).violations = <<Message[hallucination_patterns[1]]>>

\* The two parts of a pattern K1.*K2: the texts K1 stands for (one, or one for
\* each digit of its bracket range) and the text K2.
SplitAt(pattern) == CHOOSE i \in 1..(Len(pattern) - 1) : SubSeq(pattern, i, i + 1) = ".*"
FirstPart(pattern) ==
    LET k1 == SubSeq(pattern, 1, SplitAt(pattern) - 1)
    IN IF \E b \in 1..Len(k1) : Char(k1, b) = "["
       THEN LET b == CHOOSE b \in 1..Len(k1) : Char(k1, b) = "["
            IN { SubSeq(k1, 1, b - 1) \o Char(Digits, d) :
                    d \in { d \in 1..Len(Digits) :
                                /\ Ord(Char(Digits, d)) >= Ord(Char(k1, b + 1))
                                /\ Ord(Char(Digits, d)) <= Ord(Char(k1, b + 3)) } }
       ELSE {k1}
SecondPart(pattern) == SubSeq(pattern, SplitAt(pattern) + 2, Len(pattern))

\* K1 occurs in the content, K2 occurs after its end, and no line break lies
\* between the two occurrences; letter case ignored.
PairOnOneLine ==
    [pattern \in ShippedPatterns, content \in MatchContents |->
        LET text == LowerStr(content)
            k2 == SecondPart(pattern)
        IN \E k1 \in FirstPart(pattern) :
           \E i \in 1..(Len(text) - Len(k1) + 1) :
              /\ SubSeq(text, i, i + Len(k1) - 1) = k1
              /\ \E j \in (i + Len(k1))..(Len(text) - Len(k2) + 1) :
                    /\ SubSeq(text, j, j + Len(k2) - 1) = k2
                    /\ \A m \in (i + Len(k1))..(j - 1) : Char(text, m) # "\n"]

\* C24: a pattern K1.*K2 is reported exactly when the content holds, ignoring
\* case, K1 and after it K2 with no line break between them.
C24_PatternFiresIffPairOnOneLine ==
    \A i \in Returned : \A pattern \in ShippedPatterns :
        Reports(RecordOf(calls[i]), pattern) <=> PairOnOneLine[pattern, calls[i].content]

\* C24 witness: the pair in reverse order and the pair split by a line break
\* are not reported; a split pair followed by a pair on one line is.
C24_Witness ==
    \E i, j \in Returned :
        /\ calls[i].content = "quantum\nconsciousness"
        /\ RecordOf(calls[i]).violations = <<>>
        /\ calls[j].content = "quantum\nquantum consciousness"
        /\ RecordOf(calls[j]).violations = <<Message[hallucination_patterns[1]]>>

\* The replies of query calls with the given outcome.
QueryReplies(success) ==
    { k \in 1..Len(replies) : replies[k].op = "query" /\ replies[k].success = success }

\* C27: queries_processed and successful_queries both equal the number of
\* query calls that returned success, and failed_queries the number that
\* returned failure; a failed query is not counted as processed.
C27_CountersCountSuccessfulQueries ==
    LET metrics == ultimate_deepblue_self.metrics
    IN /\ metrics.queries_processed = Cardinality(QueryReplies(TRUE))
       /\ metrics.successful_queries = Cardinality(QueryReplies(TRUE))
       /\ metrics.failed_queries = Cardinality(QueryReplies(FALSE))

\* C27 witness: one object has answered a query and failed another.
C27_Witness ==
    /\ QueryReplies(TRUE) # {}
    /\ QueryReplies(FALSE) # {}
    /\ ultimate_deepblue_self.metrics.queries_processed < Len(replies)

\* The query calls whose hack phrase argument holds the configured phrase.
Activations ==
    { k \in QueryReplies(TRUE) :
        /\ replies[k].hack_phrase.given
        /\ Contains(LowerStr(replies[k].hack_phrase.text), "i think we need a bigger boat") }

\* C28: performance_score never exceeds 10.0 and stays equal to 10.0, and
\* the answers report it as 10.0, with or without the hack phrase.
C28_PerformanceScoreStaysAtTen ==
    /\ ultimate_deepblue_self.metrics.performance_score <= ScoreCap
    /\ ultimate_deepblue_self.metrics.performance_score = ScoreCap
    /\ \A k \in QueryReplies(TRUE) :
          Contains(replies[k].answer, "Performance Score: 10.0/10")

\* C28 witness: two queries carrying the hack phrase have been answered.
C28_Witness == Cardinality(Activations) >= 2

\* The config offers every attribute that a query with this hack phrase
\* argument reads.
ConfigServes(config, hack_phrase) ==
    /\ {"version", "hallucination_prevention", "real_time_verification",
        "quantum_security", "agi_integration", "system_id"} \subseteq config.attributes
    /\ (hack_phrase.given /\ hack_phrase.text # "") => "hack_phrase" \in config.attributes

\* C29: a query never changes the status and is answered whatever the status
\* is: where the config serves it, it returns success and verified and
\* counts as processed, also before initialize and after a failed initialize;
\* the status changes only in initialize, to operational or to error.
C29_QueryIsNotGatedOnStatus ==
    [][ replies' # replies =>
          LET reply == Last(replies')
              self == ultimate_deepblue_self
          IN IF reply.op = "query"
             THEN /\ ultimate_deepblue_self'.status = self.status
                  /\ ConfigServes(self.config, reply.hack_phrase) =>
                        /\ reply.success
                        /\ reply.verified
                        /\ ultimate_deepblue_self'.metrics.queries_processed =
                              self.metrics.queries_processed + 1
             ELSE /\ reply.op = "initialize"
                  /\ ultimate_deepblue_self'.status =
                        IF reply.success THEN "operational" ELSE "error" ]_vars

\* C29 witness: queries answered before initialize and after a failed
\* initialize.
C29_Witness ==
    /\ ultimate_deepblue_self.status = "error"
    /\ Len(replies) = 3
    /\ replies[1].op = "query" /\ replies[1].success /\ replies[1].verified
    /\ replies[2].op = "initialize" /\ ~replies[2].success
    /\ replies[3].op = "query" /\ replies[3].success /\ replies[3].verified

\* C30: once main has reported on a build whose test script was written, the
\* script has been run once, the test result is success exactly when that run
\* ended with exit status 0, and main printed PASSED exactly then.
C30_TestResultReflectsRunningTheScript ==
    (builder_pc = "done" /\ "test_replica.py" \in target_path) =>
        /\ Len(processes) = 1
        /\ Last(build_result).success <=> (returncode = 0)
        /\ (Last(stdout) = "Test result: PASSED") <=> (returncode = 0)

====
